---- MODULE Spec2Model ----
(***************************************************************************)
(* A model of the quiz solver: the answer strategies of app/handlers.py,   *)
(* the task orchestrator solve_task of app/runner.py and the background    *)
(* wrapper run_solver of app/main.py.                                      *)
(*                                                                         *)
(* The specifications of the module:                                       *)
(*   Spec          POST /task, run_solver and the chain of solve_task      *)
(*                 calls, with a clock, the browsers, exceptions and       *)
(*                 cancellation;                                           *)
(*   SpecChain     the same chain with one step per attempt and fair       *)
(*                 scheduling, for chains of any length;                   *)
(*   SpecDispatch  one call of solve_from_page_content, strategy by        *)
(*                 strategy;                                               *)
(*   SpecJson      extract_answer_from_json applied to bounded mappings;   *)
(*   SpecLocate    find_submit_url applied to bounded documents;           *)
(*   SpecFrame     compute_from_dataframe applied to bounded frames;       *)
(*   SpecCalc      handle_calculation applied to bounded texts;            *)
(*   SpecFiles     handle_data_analysis, file link by file link.           *)
(***************************************************************************)
EXTENDS Integers, Sequences, FiniteSets, TLC

VARIABLES
    now,        \* the clock, in seconds (time.time())
    start,      \* run_solver's start (0 before the task is accepted)
    rs,         \* run_solver: "idle", "queued", "waiting", "completed",
                \* "timed_out", "errored"
    timer,      \* the wait_for timer: "armed" or "fired"
    stack,      \* the active solve_task calls, outermost first
    calls,      \* history: every chained solve_task call, as it was made
    checks,     \* history: every deadline check of a response naming a url
    posts,      \* history: every call of client.post
    exits,      \* history: every exit of a solve_task call
    request,    \* POST /task: the secret of the request received (Null before)
    response,   \* POST /task: "none", "accepted" or "forbidden"
    queued,     \* POST /task: the background tasks added so far
    dpage,      \* SpecDispatch: the page handed to solve_from_page_content
    dpc,        \* SpecDispatch: position in solve_from_page_content
    invoked,    \* SpecDispatch: the strategies invoked so far, in order
    dresult,    \* SpecDispatch: the payload returned
    jdata,      \* SpecJson: the mapping handed to extract_answer_from_json
    jpc,        \* SpecJson: "call" or "done"
    jout,       \* SpecJson: the value returned
    arg,        \* the argument of the function a specification applies
    apc,        \* "idle", "call" or "done"
    ret,        \* the value that function returned
    fidx,       \* SpecFiles: the position of handle_data_analysis in file_links
    fseen       \* SpecFiles: the links downloaded so far, in order

httpVars == <<request, response, queued>>
orchVars == <<now, start, rs, timer, stack, calls, checks, posts, exits,
              request, response, queued>>
dispVars == <<dpage, dpc, invoked, dresult>>
jsonVars == <<jdata, jpc, jout>>
callVars == <<arg, apc, ret>>
fileVars == <<fidx, fseen>>
funVars == <<jdata, jpc, jout, arg, apc, ret, fidx, fseen>>
vars == <<now, start, rs, timer, stack, calls, checks, posts, exits,
          request, response, queued, dpage, dpc, invoked, dresult,
          jdata, jpc, jout, arg, apc, ret, fidx, fseen>>

(***************************************************************************)
(* Bounds of the model.                                                    *)
(***************************************************************************)
MaxDepth == 2       \* chained attempts below the first one
Horizon == 210      \* the clock is not advanced beyond start + Horizon
Epoch == 1000       \* the clock when the task is accepted
MaxKeys == 3        \* keys of a mapping given to extract_answer_from_json
MaxFields == 2      \* keys of the structure embedded in a dispatched page
MaxElems == 3       \* elements of a document given to find_submit_url
MaxRows == 12       \* rows of a dataframe given to compute_from_dataframe
MaxPage == 3        \* the page numbers an instruction names are 0..MaxPage
MaxNumbers == 3     \* numbers in a text given to handle_calculation
MaxLinks == 4       \* elements of a document given to handle_data_analysis
MaxChain == 20      \* SpecChain starts no attempt beyond this many in a chain

(***************************************************************************)
(* Values.  One record shape for all of them: t is the type, n the number *)
(* (0/1 for a bool), s the string, l the elements of a list, d the         *)
(* denominator of a float.  The numbers of a JSON structure are integers   *)
(* (Num); the floats the strategies compute are exact fractions n/d in     *)
(* lowest terms (Flt), so rounding is not modelled; 0/0 is nan.  None is   *)
(* Null.                                                                   *)
(***************************************************************************)
Null == [t |-> "null", n |-> 0, s |-> "", l |-> <<>>, d |-> 1]
Num(k) == [t |-> "num", n |-> k, s |-> "", l |-> <<>>, d |-> 1]
Str(x) == [t |-> "str", n |-> 0, s |-> x, l |-> <<>>, d |-> 1]
Bool(b) == [t |-> "bool", n |-> IF b THEN 1 ELSE 0, s |-> "", l |-> <<>>, d |-> 1]
Lst(elems) == [t |-> "list", n |-> 0, s |-> "", l |-> elems, d |-> 1]

RECURSIVE GCD(_, _)
\* The greatest common divisor of two naturals, not both 0
GCD(a, b) == IF b = 0 THEN a ELSE GCD(b, a % b)

\* float(n / d), for n >= 0 and d > 0
Flt(n, d) ==
    [t |-> "float", n |-> n \div GCD(n, d), s |-> "", l |-> <<>>,
     d |-> d \div GCD(n, d)]

\* float('nan')
NaN == [t |-> "float", n |-> 0, s |-> "", l |-> <<>>, d |-> 0]

\* Python truthiness of a value (the operand of `or` and of `if`)
Truthy(v) ==
    CASE v.t = "null" -> FALSE
      [] v.t = "bool" -> v.n = 1
      [] v.t = "num" -> v.n # 0
      [] v.t = "float" -> v.n # 0 \/ v.d = 0
      [] v.t = "str" -> v.s # ""
      [] v.t = "list" -> v.l # <<>>

\* a or b
PyOr(a, b) == IF Truthy(a) THEN a ELSE b

\* isinstance(x, (int, float)); bool is a subclass of int
IsNumber(x) == x.t \in {"num", "bool"}

RECURSIVE SumSeq(_)
\* sum(value) of a list of numbers
SumSeq(q) == IF q = <<>> THEN 0 ELSE Head(q).n + SumSeq(Tail(q))

(***************************************************************************)
(* A dict is a sequence of <<key, value>> pairs with distinct keys, in     *)
(* insertion order (the order of data.values()).                           *)
(***************************************************************************)
HasKey(data, k) == \E i \in 1..Len(data) : data[i][1] = k

\* data[k], for a key that is present
Item(data, k) == data[CHOOSE i \in 1..Len(data) : data[i][1] = k][2]

\* data.get(k)
Get(data, k) == IF HasKey(data, k) THEN Item(data, k) ELSE Null

\* isinstance(value, list) and all(isinstance(x, (int, float)) for x in value)
IsNumberList(v) == v.t = "list" /\ \A i \in 1..Len(v.l) : IsNumber(v.l[i])

AnswerKeys == <<"result", "value", "number", "total">>

\* Mutation: the number lists are searched from the last value backwards.
extract_answer_from_json_last(data) ==
    IF \E i \in 1..Len(AnswerKeys) : HasKey(data, AnswerKeys[i])
    THEN Item(data, AnswerKeys[CHOOSE i \in 1..Len(AnswerKeys) :
                /\ HasKey(data, AnswerKeys[i])
                /\ \A j \in 1..(i - 1) : ~HasKey(data, AnswerKeys[j])])
    ELSE IF \E i \in 1..Len(data) : IsNumberList(data[i][2])
    THEN Num(SumSeq(data[CHOOSE i \in 1..Len(data) :
                /\ IsNumberList(data[i][2])
                /\ \A j \in (i + 1)..Len(data) : ~IsNumberList(data[j][2])][2].l))
    ELSE Num(0)

\* extract_answer_from_json: the first of result, value, number, total that
\* is present; else the sum of the first value that is a list of numbers;
\* else 0.
extract_answer_from_json(data) ==
    IF \E i \in 1..Len(AnswerKeys) : HasKey(data, AnswerKeys[i])
    THEN Item(data, AnswerKeys[CHOOSE i \in 1..Len(AnswerKeys) :
                /\ HasKey(data, AnswerKeys[i])
                /\ \A j \in 1..(i - 1) : ~HasKey(data, AnswerKeys[j])])
    ELSE IF \E i \in 1..Len(data) : IsNumberList(data[i][2])
    THEN Num(SumSeq(data[CHOOSE i \in 1..Len(data) :
                /\ IsNumberList(data[i][2])
                /\ \A j \in 1..(i - 1) : ~IsNumberList(data[j][2])][2].l))
    ELSE Num(0)

(***************************************************************************)
(* Strings.  The code tests strings for substrings; the model keeps, for   *)
(* each string it uses, the substrings the code asks about.                *)
(*   LowerFacts: <<s, sub>> when sub in s.lower()                          *)
(*   CaseFacts:  <<s, sub>> when sub in s                                  *)
(***************************************************************************)
LowerFacts ==
    { <<"https://x/submit", "submit">>, <<"/SUBMIT/form", "submit">>,
      <<"Submit", "submit">>, <<"submit answer", "submit">>,
      <<"data.csv", ".csv">>, <<"bad.csv", ".csv">>, <<"none.csv", ".csv">>,
      <<"empty.csv", ".csv">>, <<"broken.csv", ".csv">>,
      <<"book.xlsx", ".xlsx">>, <<"book.xlsx", ".xls">>,
      <<"/download/7", "download">> }

CaseFacts ==
    { <<"/api/answer", "/api/">>, <<"/task/7", "/task/">> }

\* sub in s.lower()
LowerHas(s, sub) == <<s, sub>> \in LowerFacts

\* sub in s
Has(s, sub) == <<s, sub>> \in CaseFacts

(***************************************************************************)
(* Markup: the elements of the document in document order.  An element is  *)
(* an anchor (href is Null when the attribute is missing) or a form        *)
(* (action is "" when missing or empty).                                   *)
(***************************************************************************)
A(href, text) == [tag |-> "a", href |-> href, text |-> text, action |-> ""]
Form(action) == [tag |-> "form", href |-> Null, text |-> "", action |-> action]

\* soup.find_all('a', href=True): the positions of the anchors with an href
Anchors(html) ==
    {i \in 1..Len(html) : html[i].tag = "a" /\ html[i].href.t = "str"}

\* The least element of a non-empty set of positions
First(S) == CHOOSE i \in S : \A j \in S : i <= j

\* Mutation: the form's action is preferred to a 'submit' link.
find_submit_url_form_first(html) ==
    LET r1 == {i \in Anchors(html) :
                  \/ LowerHas(html[i].href.s, "submit")
                  \/ LowerHas(html[i].text, "submit")}
        forms == {i \in 1..Len(html) : html[i].tag = "form"}
        r3 == {i \in Anchors(html) :
                  \/ Has(html[i].href.s, "/api/")
                  \/ Has(html[i].href.s, "/task/")}
    IN  IF forms # {} /\ html[First(forms)].action # ""
        THEN Str(html[First(forms)].action)
        ELSE IF r1 # {} THEN html[First(r1)].href
        ELSE IF r3 # {} THEN html[First(r3)].href
        ELSE Null

\* find_submit_url: the first anchor with 'submit' in its href or text, else
\* the action of the first form, else the first /api/ or /task/ anchor,
\* else None.
find_submit_url(html) ==
    LET r1 == {i \in Anchors(html) :
                  \/ LowerHas(html[i].href.s, "submit")
                  \/ LowerHas(html[i].text, "submit")}
        forms == {i \in 1..Len(html) : html[i].tag = "form"}
        r3 == {i \in Anchors(html) :
                  \/ Has(html[i].href.s, "/api/")
                  \/ Has(html[i].href.s, "/task/")}
    IN  IF r1 # {} THEN html[First(r1)].href
        ELSE IF forms # {} /\ html[First(forms)].action # ""
        THEN Str(html[First(forms)].action)
        ELSE IF r3 # {} THEN html[First(r3)].href
        ELSE Null

(***************************************************************************)
(* Payloads.  A handler returns a dict or None; NoPayload is None.         *)
(* debug is 'No handler matched' in the fallback's dict and "" elsewhere   *)
(* (the key is absent).  has_target says whether the dict has the key      *)
(* 'submit_url'.                                                           *)
(***************************************************************************)
NoPayload ==
    [present |-> FALSE, email |-> "", secret |-> "", url |-> "",
     answer |-> Null, has_target |-> FALSE, submit_url |-> Null, debug |-> ""]

Payload(email, secret, url, answer, submit_url, debug) ==
    [present |-> TRUE, email |-> email, secret |-> secret, url |-> url,
     answer |-> answer, has_target |-> TRUE, submit_url |-> submit_url,
     debug |-> debug]

\* Mutation: the answer is always derived, the 'answer' key is ignored.
JsonAnswerDerived(data) == extract_answer_from_json(data)

\* handle_json_quiz, lines 66-72: the answer of the embedded structure
JsonAnswer(data) ==
    IF HasKey(data, "answer") THEN Item(data, "answer")
    ELSE extract_answer_from_json(data)

\* Mutation: the submit_url field is preferred to the submit field.
JsonTarget_url_first(data, html) ==
    PyOr(PyOr(Get(data, "submit_url"), Get(data, "submit")), find_submit_url(html))

\* handle_json_quiz, line 74: the submission target
JsonTarget(data, html) ==
    PyOr(PyOr(Get(data, "submit"), Get(data, "submit_url")), find_submit_url(html))

\* handle_json_quiz
handle_json_quiz(email, secret, url, data, html) ==
    IF Truthy(JsonTarget(data, html))
    THEN Payload(email, secret, url, JsonAnswer(data), JsonTarget(data, html), "")
    ELSE NoPayload

(***************************************************************************)
(* Dataframes.  A dataframe is the sequence of its columns and its number  *)
(* of rows; a column has a name, a dtype (numeric or not) and its cells in *)
(* file order.  A numeric cell is Num(k) or NaN.  An instruction is the    *)
(* lowercased text as compute_from_dataframe asks about it: the keywords   *)
(* that occur in it (words), the lowercased column names that occur in it  *)
(* (mentions), and the numbers of its first 'page N' and 'row N' (Null     *)
(* when the pattern does not match).                                       *)
(***************************************************************************)
PAGE_SIZE == 10

Column(name, numeric, cells) == [name |-> name, numeric |-> numeric, cells |-> cells]

DataFrame(columns, rows) == [columns |-> columns, rows |-> rows]

\* The cells of the columns of the model's dataframes, by number of rows:
\* scores (nan at the rows in holes), row numbers, and text
ScoreCells == <<4, 9, 2, 7, 5, 1, 8, 3, 6, 10, 12, 11, 13, 15>>

Scores(k, holes) == [i \in 1..k |-> IF i \in holes THEN NaN ELSE Num(ScoreCells[i])]
Ids(k) == [i \in 1..k |-> Num(i)]
Names(k) == [i \in 1..k |-> Str("x")]

\* col.lower()
LowerName(name) ==
    CASE name = "Score" -> "score"
      [] name = "Name" -> "name"
      [] OTHER -> name

\* q[from:to] of Python, for a sequence q
PySlice(q, from, to) ==
    LET n == Len(q)
        clamp(i) == IF i < 0 THEN (IF i + n < 0 THEN 0 ELSE i + n)
                    ELSE (IF i > n THEN n ELSE i)
    IN  IF clamp(from) >= clamp(to) THEN <<>>
        ELSE SubSeq(q, clamp(from) + 1, clamp(to))

\* The cells pandas aggregates: the ones that are not nan
NotNaN(cells) == SelectSeq(cells, LAMBDA c : c.t = "num")

RECURSIVE SumCells(_)
SumCells(q) == IF q = <<>> THEN 0 ELSE Head(q).n + SumCells(Tail(q))

\* Series.sum(), .mean(), .count(), .max(), .min(), coerced by float()
ColSum(cells) == Flt(SumCells(NotNaN(cells)), 1)
ColMean(cells) ==
    IF NotNaN(cells) = <<>> THEN NaN
    ELSE Flt(SumCells(NotNaN(cells)), Len(NotNaN(cells)))
ColCount(cells) == Flt(Len(NotNaN(cells)), 1)
ColMax(cells) ==
    LET q == NotNaN(cells)
    IN  IF q = <<>> THEN NaN
        ELSE Flt(CHOOSE x \in {q[i].n : i \in 1..Len(q)} :
                    \A i \in 1..Len(q) : q[i].n <= x, 1)
ColMin(cells) ==
    LET q == NotNaN(cells)
    IN  IF q = <<>> THEN NaN
        ELSE Flt(CHOOSE x \in {q[i].n : i \in 1..Len(q)} :
                    \A i \in 1..Len(q) : x <= q[i].n, 1)

\* An exception raised by the call (IndexError of iloc on an empty frame)
Raised == [t |-> "raise", n |-> 0, s |-> "", l |-> <<>>, d |-> 1]

\* compute_from_dataframe, lines 199-210: the position of the column chosen,
\* 0 when there is none
ChosenColumn(df, instruction) ==
    LET named == {i \in 1..Len(df.columns) :
                     LowerName(df.columns[i].name) \in instruction.mentions}
        numeric == {i \in 1..Len(df.columns) : df.columns[i].numeric}
    IN  IF named # {} THEN First(named)
        ELSE IF numeric # {} THEN First(numeric)
        ELSE 0

\* Mutation: pages are counted from 0.
PageWindow_from_zero(cells, page_num) ==
    PySlice(cells, page_num * PAGE_SIZE, page_num * PAGE_SIZE + PAGE_SIZE)

\* compute_from_dataframe, lines 219-224: the cells left by the page window
PageWindow(cells, page_num) ==
    PySlice(cells, (page_num - 1) * PAGE_SIZE, (page_num - 1) * PAGE_SIZE + PAGE_SIZE)

\* compute_from_dataframe, lines 231-243: the operation chosen by keyword
Aggregate(cells, words) ==
    IF words \cap {"sum", "total"} # {} THEN ColSum(cells)
    ELSE IF words \cap {"average", "mean"} # {} THEN ColMean(cells)
    ELSE IF "count" \in words THEN ColCount(cells)
    ELSE IF words \cap {"max", "maximum"} # {} THEN ColMax(cells)
    ELSE IF words \cap {"min", "minimum"} # {} THEN ColMin(cells)
    ELSE ColSum(cells)

\* float(df.iloc[i][column]) for a 0-based or negative position i
CellAt(cells, i) ==
    LET k == IF i < 0 THEN i + Len(cells) ELSE i
    IN  IF k < 0 \/ k >= Len(cells) THEN Raised
        ELSE IF cells[k + 1].t = "num" THEN Flt(cells[k + 1].n, 1)
        ELSE NaN

\* compute_from_dataframe: a float, Null for None, or Raised
compute_from_dataframe(df, instruction) ==
    LET c == ChosenColumn(df, instruction)
        cells == df.columns[c].cells
    IN  IF c = 0 THEN Null
        ELSE IF instruction.page.t = "num"
        THEN Aggregate(PageWindow(cells, instruction.page.n), instruction.words)
        ELSE IF instruction.row.t = "num" /\ instruction.row.n <= df.rows
        THEN CellAt(cells, instruction.row.n - 1)
        ELSE Aggregate(cells, instruction.words)

(***************************************************************************)
(* The files behind the links of a page: whether the download succeeds,    *)
(* whether pandas parses the content, and the dataframe it parses to.      *)
(***************************************************************************)
FileWorld(href) ==
    CASE href = "data.csv" ->
            [download |-> TRUE, parse |-> TRUE,
             df |-> DataFrame(<< Column("Score", TRUE, Scores(3, {})) >>, 3)]
      [] href = "book.xlsx" ->
            [download |-> TRUE, parse |-> TRUE,
             df |-> DataFrame(<< Column("Score", TRUE, Scores(5, {})) >>, 5)]
      [] href = "none.csv" ->
            [download |-> TRUE, parse |-> TRUE,
             df |-> DataFrame(<< Column("Name", FALSE, Names(2)) >>, 2)]
      [] href = "empty.csv" ->
            [download |-> TRUE, parse |-> TRUE,
             df |-> DataFrame(<< Column("Score", TRUE, <<>>) >>, 0)]
      [] href = "bad.csv" ->
            [download |-> FALSE, parse |-> FALSE, df |-> DataFrame(<<>>, 0)]
      [] OTHER ->
            [download |-> TRUE, parse |-> FALSE, df |-> DataFrame(<<>>, 0)]

\* handle_data_analysis, lines 101-105: the hrefs of the file links, in
\* document order
FileLinks(html) ==
    LET S == {i \in Anchors(html) :
                 \/ LowerHas(html[i].href.s, ".csv")
                 \/ LowerHas(html[i].href.s, ".xlsx")
                 \/ LowerHas(html[i].href.s, ".xls")
                 \/ LowerHas(html[i].href.s, "download")}
        pick[T \in SUBSET S] ==
            IF T = {} THEN <<>> ELSE <<html[First(T)].href.s>> \o pick[T \ {First(T)}]
    IN  pick[S]

\* Mutation: an exception ends the loop instead of moving to the next link.
FileStep_stop_on_error(href, instruction) ==
    IF ~FileWorld(href).download THEN [then |-> "return", answer |-> Null]
    ELSE IF ~(LowerHas(href, ".csv") \/ LowerHas(href, ".xlsx") \/ LowerHas(href, ".xls"))
    THEN [then |-> "continue", answer |-> Null]
    ELSE IF ~FileWorld(href).parse THEN [then |-> "return", answer |-> Null]
    ELSE LET answer == compute_from_dataframe(FileWorld(href).df, instruction)
         IN  IF answer = Raised THEN [then |-> "return", answer |-> Null]
             ELSE IF answer # Null THEN [then |-> "return", answer |-> answer]
             ELSE [then |-> "continue", answer |-> Null]

\* handle_data_analysis, lines 113-144, the body of the loop for one link,
\* after the download was attempted: whether the function returns or the
\* loop continues, and the answer (Null when there is none).  A failed
\* download (line 116-118), a link of another type (line 127), a parse
\* error (lines 123-125), an exception of compute_from_dataframe (line 130)
\* and a None answer (line 132) all continue.
FileStep(href, instruction) ==
    IF ~FileWorld(href).download THEN [then |-> "continue", answer |-> Null]
    ELSE IF ~(LowerHas(href, ".csv") \/ LowerHas(href, ".xlsx") \/ LowerHas(href, ".xls"))
    THEN [then |-> "continue", answer |-> Null]
    ELSE IF ~FileWorld(href).parse THEN [then |-> "continue", answer |-> Null]
    ELSE LET answer == compute_from_dataframe(FileWorld(href).df, instruction)
         IN  IF answer = Raised THEN [then |-> "continue", answer |-> Null]
             ELSE IF answer # Null THEN [then |-> "return", answer |-> answer]
             ELSE [then |-> "continue", answer |-> Null]

\* The answer one link yields, Null when the loop continues after it
FileAnswer(href, instruction) == FileStep(href, instruction).answer

\* handle_data_analysis: the payload of the first link that yields an
\* answer; body_text.lower() is the instruction
handle_data_analysis(email, secret, url, body_text, html) ==
    LET links == FileLinks(html)
        good == {i \in 1..Len(links) : FileAnswer(links[i], body_text) # Null}
    IN  IF good = {} THEN NoPayload
        ELSE Payload(email, secret, url, FileAnswer(links[First(good)], body_text),
                     find_submit_url(html), "")

\* float(token) for the tokens the number pattern finds in the texts of the
\* model
Float(token) ==
    CASE token = "0" -> Flt(0, 1)
      [] token = "2" -> Flt(2, 1)
      [] token = "3" -> Flt(3, 1)
      [] token = "4" -> Flt(4, 1)
      [] token = "4.5" -> Flt(45, 10)
      [] token = "10" -> Flt(10, 1)

\* a + b and a * b of two floats
FAdd(a, b) == Flt(a.n * b.d + b.n * a.d, a.d * b.d)
FMul(a, b) == Flt(a.n * b.n, a.d * b.d)

RECURSIVE ProdSeq(_)
\* answer = 1; for n in numbers: answer *= float(n)
ProdSeq(q) == IF q = <<>> THEN Flt(1, 1) ELSE FMul(Float(Head(q)), ProdSeq(Tail(q)))

RECURSIVE SumFloats(_)
\* sum(float(n) for n in numbers)
SumFloats(q) == IF q = <<>> THEN Flt(0, 1) ELSE FAdd(Float(Head(q)), SumFloats(Tail(q)))

\* Mutation: multiply/product is tested before sum/add/total.
CalcAnswer_product_first(body_text) ==
    LET w == body_text.words
        ns == body_text.numbers
    IN  IF w \cap {"multiply", "product"} # {} THEN ProdSeq(ns)
        ELSE IF w \cap {"sum", "add", "total"} # {} THEN SumFloats(ns)
        ELSE IF w \cap {"average", "mean"} # {}
        THEN Flt(SumFloats(ns).n, SumFloats(ns).d * Len(ns))
        ELSE Float(ns[1])

\* handle_calculation, lines 168-178: the operation chosen by keyword.  The
\* text is its keywords (body_text.words) and the tokens the number pattern
\* finds in it (body_text.numbers), in order.
CalcAnswer(body_text) ==
    LET w == body_text.words
        ns == body_text.numbers
    IN  IF w \cap {"sum", "add", "total"} # {} THEN SumFloats(ns)
        ELSE IF w \cap {"multiply", "product"} # {} THEN ProdSeq(ns)
        ELSE IF w \cap {"average", "mean"} # {}
        THEN Flt(SumFloats(ns).n, SumFloats(ns).d * Len(ns))
        ELSE Float(ns[1])

\* handle_calculation
handle_calculation(email, secret, url, body_text, html) ==
    IF body_text.numbers = <<>> THEN NoPayload
    ELSE IF Truthy(find_submit_url(html))
    THEN Payload(email, secret, url, CalcAnswer(body_text),
                 find_submit_url(html), "")
    ELSE NoPayload

(***************************************************************************)
(* solve_from_page_content.  A page is [json, text, html]: json is the     *)
(* value of extracted_json ([present |-> FALSE] for None), text the body   *)
(* text, html the markup.                                                  *)
(***************************************************************************)
\* line 26: extracted_json and isinstance(extracted_json, dict)
JsonApplies(page) == page.json.present /\ page.json.data # <<>>

\* line 32
DataApplies(page) ==
    page.text.words \cap {"sum", "average", "mean", "count", "total"} # {}

\* line 38
CalcApplies(page) == page.text.words \cap {"calculate", "compute"} # {}

\* lines 44-53: the fallback's dict
Fallback(email, secret, url, page) ==
    Payload(email, secret, url, Num(0), find_submit_url(page.html),
            "No handler matched")

\* What the call of one strategy returns
StrategyResult(email, secret, url, page, strategy) ==
    CASE strategy = "json" ->
            handle_json_quiz(email, secret, url, page.json.data, page.html)
      [] strategy = "data" ->
            handle_data_analysis(email, secret, url, page.text, page.html)
      [] strategy = "calc" ->
            handle_calculation(email, secret, url, page.text, page.html)
      [] strategy = "fallback" -> Fallback(email, secret, url, page)

\* The condition under which a strategy is invoked
Applies(page, strategy) ==
    CASE strategy = "json" -> JsonApplies(page)
      [] strategy = "data" -> DataApplies(page)
      [] strategy = "calc" -> CalcApplies(page)
      [] strategy = "fallback" -> TRUE

Order == <<"json", "data", "calc", "fallback">>

\* solve_from_page_content as a function of the page: the result of the
\* first strategy, in Order, that applies and returns a dict
solve_from_page_content(email, secret, url, page) ==
    LET hit == {i \in 1..Len(Order) :
                   /\ Applies(page, Order[i])
                   /\ StrategyResult(email, secret, url, page, Order[i]).present}
    IN  StrategyResult(email, secret, url, page, Order[First(hit)])

(***************************************************************************)
(* Inputs.                                                                 *)
(***************************************************************************)
\* The dicts of at most n keys over the given keys and values
Dicts(keys, vals, n) ==
    UNION { {d \in [1..k -> keys \X vals] :
                \A i, j \in 1..k : i # j => d[i][1] # d[j][1]} : k \in 0..n }

JKeys == {"result", "value", "number", "total", "a", "b"}

JVals ==
    { Num(7), Num(9), Lst(<<Num(1), Num(2)>>), Lst(<<Num(4)>>), Lst(<<>>),
      Lst(<<Num(1), Str("x")>>), Lst(<<Bool(TRUE), Num(5)>>) }

DKeys == {"answer", "result", "submit", "submit_url"}

DVals == { Num(42), Null, Str("https://t/s"), Str("https://u/s"), Str("") }

None == [present |-> FALSE, data |-> <<>>]
Some(d) == [present |-> TRUE, data |-> d]

DocPlain == << A(Str("/other"), "link") >>
DocSubmit == << A(Str("/other"), "link"), A(Str("https://x/submit"), "go") >>
DocEmptyHref == << A(Str(""), "Submit") >>
DocData == << A(Str("bad.csv"), "file"), A(Str("data.csv"), "file") >>
DocDataForm ==
    << A(Str("/download/7"), "get"), A(Str("book.xlsx"), "book"), Form("/api/answer") >>

Docs == {DocPlain, DocSubmit, DocEmptyHref, DocData, DocDataForm}

\* The visible text as the strategies ask about it: the keywords that occur
\* in its lowercased form, the tokens the number pattern finds, the column
\* names that occur, and the numbers of 'page N' and 'row N' (Null when the
\* pattern does not match)
Text(words, numbers) ==
    [words |-> words, numbers |-> numbers, mentions |-> {}, page |-> Null,
     row |-> Null]

Texts ==
    { Text(w, ns) : w \in { {}, {"sum"}, {"calculate"}, {"sum", "calculate"} },
                    ns \in { <<>>, <<"3", "4">> } }

DispPages ==
    [json : {None} \cup {Some(d) : d \in Dicts(DKeys, DVals, MaxFields)},
     text : Texts,
     html : Docs]

NoPage == [json |-> None, text |-> Text({}, <<>>), html |-> <<>>]

(***************************************************************************)
(* The initial values of the groups of variables, and the values they     *)
(* keep under the specifications that do not use them.                     *)
(***************************************************************************)
OrchIdle ==
    /\ now = Epoch
    /\ start = 0
    /\ rs = "idle"
    /\ timer = "armed"
    /\ stack = <<>>
    /\ calls = {}
    /\ checks = {}
    /\ posts = {}
    /\ exits = {}
    /\ request = ""
    /\ response = "none"
    /\ queued = 0

DispIdle ==
    /\ dpage = NoPage
    /\ dpc = "idle"
    /\ invoked = <<>>
    /\ dresult = NoPayload

JsonIdle ==
    /\ jdata = <<>>
    /\ jpc = "idle"
    /\ jout = Null

CallIdle ==
    /\ arg = <<>>
    /\ apc = "idle"
    /\ ret = <<>>

FileIdle ==
    /\ fidx = 0
    /\ fseen = <<>>

(***************************************************************************)
(* SpecJson: extract_answer_from_json applied to a dict.                   *)
(***************************************************************************)
InitJson ==
    /\ OrchIdle
    /\ DispIdle
    /\ CallIdle
    /\ FileIdle
    /\ jdata \in Dicts(JKeys, JVals, MaxKeys)
    /\ jpc = "call"
    /\ jout = Null

JsonCall ==
    /\ jpc = "call"
    /\ jout' = extract_answer_from_json(jdata)
    /\ jpc' = "done"
    /\ UNCHANGED <<jdata, orchVars, dispVars, callVars, fileVars>>

NextJson == JsonCall

SpecJson == InitJson /\ [][NextJson]_vars

(***************************************************************************)
(* SpecLocate: find_submit_url applied to a document.  The documents are   *)
(* the sequences of at most MaxElems of these elements: anchors that match *)
(* no rule, anchors with 'submit' in the href (in either case) or in the   *)
(* text, an anchor with an empty href, an anchor without href, /api/       *)
(* anchors in either case, and forms with and without an action.           *)
(***************************************************************************)
LocElems ==
    { A(Str("/other"), "link"),
      A(Str("https://x/submit"), "go"),
      A(Str("/SUBMIT/form"), "go"),
      A(Str("/next"), "Submit"),
      A(Str(""), "submit answer"),
      A(Null, "Submit"),
      A(Str("/api/answer"), "api"),
      A(Str("/API/up"), "api"),
      Form("/post"),
      Form("") }

RECURSIVE SeqsUpTo(_, _)
\* The sequences of at most n elements of S
SeqsUpTo(S, n) ==
    IF n = 0 THEN { <<>> }
    ELSE LET shorter == SeqsUpTo(S, n - 1)
         IN  shorter \cup { Append(q, e) : q \in shorter, e \in S }

LocDocs == SeqsUpTo(LocElems, MaxElems)

InitLocate ==
    /\ OrchIdle
    /\ DispIdle
    /\ JsonIdle
    /\ FileIdle
    /\ arg \in LocDocs
    /\ apc = "call"
    /\ ret = <<>>

LocateCall ==
    /\ apc = "call"
    /\ ret' = find_submit_url(arg)
    /\ apc' = "done"
    /\ UNCHANGED <<arg, orchVars, dispVars, jsonVars, fileVars>>

NextLocate == LocateCall

SpecLocate == InitLocate /\ [][NextLocate]_vars

(***************************************************************************)
(* SpecFrame: compute_from_dataframe applied to a dataframe and an         *)
(* instruction.  The dataframes have 0..MaxRows rows and one of these      *)
(* layouts: Score; Name, Score; id, Score; Name; Score with two nan        *)
(* cells; no column at all.  The instructions name numeric columns only.   *)
(***************************************************************************)
Frames ==
    UNION { { DataFrame(<< Column("Score", TRUE, Scores(k, {})) >>, k),
              DataFrame(<< Column("Name", FALSE, Names(k)),
                           Column("Score", TRUE, Scores(k, {})) >>, k),
              DataFrame(<< Column("id", TRUE, Ids(k)),
                           Column("Score", TRUE, Scores(k, {})) >>, k),
              DataFrame(<< Column("Name", FALSE, Names(k)) >>, k),
              DataFrame(<< Column("Score", TRUE, Scores(k, {2, 11})) >>, k) }
            : k \in 0..MaxRows }
    \cup { DataFrame(<<>>, 0) }

FrameWords ==
    { {}, {"sum"}, {"total"}, {"average"}, {"mean"}, {"count"}, {"max"},
      {"min"}, {"sum", "max"}, {"mean", "count"}, {"count", "min"},
      {"max", "min"} }

Instructions ==
    [words : FrameWords,
     mentions : { {}, {"score"}, {"id"} },
     page : {Null} \cup {Num(n) : n \in 0..MaxPage},
     row : {Null} \cup {Num(n) : n \in 0..(MaxRows + 1)}]

InitFrame ==
    /\ OrchIdle
    /\ DispIdle
    /\ JsonIdle
    /\ FileIdle
    /\ arg \in [df : Frames, instruction : Instructions]
    /\ apc = "call"
    /\ ret = <<>>

FrameCall ==
    /\ apc = "call"
    /\ ret' = compute_from_dataframe(arg.df, arg.instruction)
    /\ apc' = "done"
    /\ UNCHANGED <<arg, orchVars, dispVars, jsonVars, fileVars>>

NextFrame == FrameCall

SpecFrame == InitFrame /\ [][NextFrame]_vars

(***************************************************************************)
(* SpecDispatch: solve_from_page_content, one strategy block per step.     *)
(* dpc names the strategy whose block is next.                             *)
(***************************************************************************)
DEmail == "a@b"
DSecret == "s3"
DUrl == "https://quiz/1"

InitDispatch ==
    /\ OrchIdle
    /\ JsonIdle
    /\ CallIdle
    /\ FileIdle
    /\ dpage \in DispPages
    /\ dpc = "json"
    /\ invoked = <<>>
    /\ dresult = NoPayload

\* The block that follows the block of a strategy (lines 26, 32, 38, 44)
After(strategy) ==
    CASE strategy = "json" -> "data"
      [] strategy = "data" -> "calc"
      [] strategy = "calc" -> "fallback"
      [] strategy = "fallback" -> "done"

\* Mutation: a result is kept but the later blocks still run.
Return_falls_through(strategy, r) == After(strategy)

\* `if result: return result`: where control goes after a strategy returned r
Return(strategy, r) == IF r.present THEN "done" ELSE After(strategy)

\* One block of solve_from_page_content
Block(strategy) ==
    /\ dpc = strategy
    /\ IF Applies(dpage, strategy)
       THEN LET r == StrategyResult(DEmail, DSecret, DUrl, dpage, strategy)
            IN  /\ invoked' = Append(invoked, strategy)
                /\ dresult' = IF r.present THEN r ELSE dresult
                /\ dpc' = Return(strategy, r)
       ELSE /\ dpc' = After(strategy)
            /\ UNCHANGED <<invoked, dresult>>
    /\ UNCHANGED <<dpage, orchVars, funVars>>

\* lines 25-29
TryJson == dpc = "json" /\ Block("json")

\* lines 31-35
TryData == dpc = "data" /\ Block("data")

\* lines 37-41
TryCalc == dpc = "calc" /\ Block("calc")

\* lines 43-53
TryFallback == dpc = "fallback" /\ Block("fallback")

NextDispatch == TryJson \/ TryData \/ TryCalc \/ TryFallback

SpecDispatch == InitDispatch /\ [][NextDispatch]_vars

(***************************************************************************)
(* SpecCalc: one call of handle_calculation, in two steps: the local       *)
(* variable answer is computed (lines 157-178), then the payload is built  *)
(* or None is returned (lines 180-191).  ret holds the local answer and    *)
(* the value returned.                                                     *)
(***************************************************************************)
CalcKeywords == {"sum", "add", "total", "multiply", "product", "average", "mean"}

CalcTokens == {"0", "3", "4.5", "10"}

CalcTexts ==
    { Text(w, ns) : w \in SUBSET CalcKeywords, ns \in SeqsUpTo(CalcTokens, MaxNumbers) }

InitCalc ==
    /\ OrchIdle
    /\ DispIdle
    /\ JsonIdle
    /\ FileIdle
    /\ arg \in [text : CalcTexts, html : {DocPlain, DocSubmit}]
    /\ apc = "call"
    /\ ret = [answer |-> Null, payload |-> NoPayload]

\* lines 157-178
CalcCompute ==
    /\ apc = "call"
    /\ IF arg.text.numbers = <<>>
       THEN /\ apc' = "done"
            /\ ret' = ret
       ELSE /\ apc' = "computed"
            /\ ret' = [ret EXCEPT !.answer = CalcAnswer(arg.text)]
    /\ UNCHANGED <<arg, orchVars, dispVars, jsonVars, fileVars>>

\* lines 180-191
CalcReturn ==
    /\ apc = "computed"
    /\ apc' = "done"
    /\ ret' = [ret EXCEPT !.payload =
                  IF Truthy(find_submit_url(arg.html))
                  THEN Payload(DEmail, DSecret, DUrl, ret.answer,
                               find_submit_url(arg.html), "")
                  ELSE NoPayload]
    /\ UNCHANGED <<arg, orchVars, dispVars, jsonVars, fileVars>>

NextCalc ==
    \/ CalcCompute
    \/ CalcReturn

SpecCalc == InitCalc /\ [][NextCalc]_vars

(***************************************************************************)
(* SpecFiles: one call of handle_data_analysis, one link of file_links per *)
(* step.  fidx is the position of the loop in file_links and fseen the     *)
(* links client.get was called with, in order.  The documents are the      *)
(* sequences of at most MaxLinks anchors to the files of FileWorld, to a   *)
(* 'download' path that is neither csv nor Excel, and to another page.     *)
(***************************************************************************)
FileElems ==
    { A(Str("/other"), "link"), A(Str("data.csv"), "file"),
      A(Str("book.xlsx"), "book"), A(Str("bad.csv"), "file"),
      A(Str("none.csv"), "file"), A(Str("empty.csv"), "file"),
      A(Str("broken.csv"), "file"), A(Str("/download/7"), "get") }

FileTexts ==
    { Text({"sum"}, <<>>),
      [Text({"sum"}, <<"0">>) EXCEPT !.row = Num(0)],
      [Text({"count"}, <<"2">>) EXCEPT !.page = Num(2)] }

InitFiles ==
    /\ OrchIdle
    /\ DispIdle
    /\ JsonIdle
    /\ arg \in [text : FileTexts, html : SeqsUpTo(FileElems, MaxLinks)]
    /\ apc = "call"
    /\ ret = NoPayload
    /\ fidx = 0
    /\ fseen = <<>>

\* lines 98-111: the file links are collected
FilesStart ==
    /\ apc = "call"
    /\ IF FileLinks(arg.html) = <<>>
       THEN /\ apc' = "done"
            /\ fidx' = fidx
       ELSE /\ apc' = "loop"
            /\ fidx' = 1
    /\ UNCHANGED <<arg, ret, fseen, orchVars, dispVars, jsonVars>>

\* lines 113-146: client.get is called with the link at fidx and the rest
\* of the iteration runs; the function returns or the loop moves on
FilesTry ==
    /\ apc = "loop"
    /\ LET links == FileLinks(arg.html)
           step == FileStep(links[fidx], arg.text)
       IN  /\ fseen' = Append(fseen, links[fidx])
           /\ IF step.then = "return"
              THEN /\ apc' = "done"
                   /\ fidx' = fidx
                   /\ ret' = IF step.answer = Null THEN NoPayload
                             ELSE Payload(DEmail, DSecret, DUrl, step.answer,
                                          find_submit_url(arg.html), "")
              ELSE IF fidx = Len(links)
              THEN /\ apc' = "done"
                   /\ fidx' = fidx
                   /\ ret' = NoPayload
              ELSE /\ fidx' = fidx + 1
                   /\ UNCHANGED <<apc, ret>>
    /\ UNCHANGED <<arg, orchVars, dispVars, jsonVars>>

NextFiles ==
    \/ FilesStart
    \/ FilesTry

SpecFiles == InitFiles /\ [][NextFiles]_vars

(***************************************************************************)
(* Spec: run_solver and the chain of solve_task calls.                     *)
(*                                                                         *)
(* stack holds the active solve_task calls; the last one is the call that  *)
(* runs, the others await the call above them (pc = "chained").  pc names  *)
(* the await the call is suspended at.  An action is the await's outcome   *)
(* and the synchronous code up to the next await.                          *)
(*                                                                         *)
(* The clock is the wall clock time.time().  wait_for's timer runs on the  *)
(* event loop's own clock, so the cancellation is delivered at some await  *)
(* at or after start + TIMEOUT_S, not necessarily the first one.           *)
(***************************************************************************)
TIMEOUT_S == 180
NAV_TIMEOUT_S == 30
SETTLE_S == 1

\* The latencies of an awaited step: none, one navigation timeout, three
Delays == {0, NAV_TIMEOUT_S, 3 * NAV_TIMEOUT_S}

\* The latencies the clock bound allows now
Allowed == {d \in Delays : now + d <= start + Horizon}

Max(a, b) == IF a >= b THEN a ELSE b

OrchPages ==
    { [json |-> Some(<< <<"answer", Num(42)>>, <<"submit_url", Str("https://t/s")>> >>),
       text |-> Text({}, <<>>), html |-> DocPlain],
      [json |-> None, text |-> Text({}, <<>>), html |-> DocPlain],
      [json |-> None, text |-> Text({"sum", "calculate"}, <<"3", "4">>),
       html |-> DocSubmit],
      [json |-> None, text |-> Text({"sum"}, <<>>), html |-> DocData],
      [json |-> None, text |-> Text({}, <<>>), html |-> DocEmptyHref],
      [json |-> None, text |-> Text({}, <<>>), html |-> DocSubmit] }

\* The URLs httpx accepts: absolute, with a scheme
Absolute(v) == v.t = "str" /\ v.s \in {"https://x/submit", "https://t/s"}

\* The submission responses: an HTTP status and a body.  "text" is not JSON,
\* "list" is JSON but no object, "object" is an object without a truthy url,
\* "next" is an object with a non-empty url.
Responses == [status : {200, 500}, body : {"text", "list", "object", "next"}]

TaskEmail == "a@b"

\* main.py line 19: the configured secret, and the secrets a request may
\* carry
QUIZ_SECRET == "s3"
Secrets == {QUIZ_SECRET, "guess"}
TaskUrl == "https://quiz/1"
NextUrl == "https://quiz/next"

\* line 20: start_ts = start_ts or time.time()
StartTs(start_ts) == IF start_ts = 0 THEN now ELSE start_ts

\* solve_task's frame at its first await (lines 9-23)
Frame(email, secret, url, start_ts, timeout) ==
    [email |-> email, secret |-> secret, url |-> url,
     start_ts |-> StartTs(start_ts), timeout |-> timeout,
     pc |-> "launch", browser |-> "none", page |-> NoPage,
     payload |-> NoPayload, pending |-> "none", log |-> "none"]

Top == stack[Len(stack)]
Depth == Len(stack) - 1
Below == SubSeq(stack, 1, Len(stack) - 1)

Running == rs = "waiting" /\ stack # <<>>

\* The running call with some fields changed
SetTop(f) == [stack EXCEPT ![Len(stack)] = f]

\* An exit of a call: how it exits, the state of its browser then, and
\* whether a call of the chain it awaited (every call that exited before it)
\* left its browser open
Exit(via, browser) ==
    [via |-> via, browser |-> browser,
     inner |-> IF \E e \in exits : e.browser = "open" THEN "open" ELSE "closed"]

\* line 22: leaving `async with async_playwright()` stops the Playwright
\* driver.  solve_task closes nothing there itself: a browser that
\* browser.close() has not closed is closed by then only if the driver's
\* shutdown has ended it, which this code does not decide.
AfterStop(browser) == IF browser = "open" THEN {"open", "closed"} ELSE {browser}

\* The running call exits: normally ("return"), with an exception ("error")
\* or with CancelledError ("cancel").  The call below it resumes in its try
\* block: an exception is caught by `except Exception` (lines 83-84),
\* CancelledError is not; either way its finally block comes next.  Below the
\* first call is run_solver (lines 73-77).
Leave(via, browser) ==
    /\ \E b \in AfterStop(browser) : exits' = exits \cup {Exit(via, b)}
    /\ IF Below = <<>>
       THEN /\ stack' = <<>>
            /\ rs' = CASE via = "return" -> "completed"
                       [] via = "cancel" -> "timed_out"
                       [] via = "error" -> "errored"
       ELSE /\ stack' = [Below EXCEPT ![Len(Below)] =
                            [@ EXCEPT !.pc = "close",
                                      !.pending = IF via = "cancel" THEN "cancel" ELSE "none",
                                      !.log = IF via = "error" THEN "error" ELSE @]]
            /\ rs' = rs

\* An exception raised inside the try block of the running call: caught and
\* logged (lines 81-84), then the finally block
Caught(log) ==
    /\ stack' = SetTop([Top EXCEPT !.pc = "close", !.log = log,
                                   !.page = NoPage, !.payload = NoPayload])
    /\ UNCHANGED <<rs, exits>>

\* Mutation: every secret is accepted.
Authorised_any(secret) == TRUE

\* receive_task, line 54: the secret of the request is the configured one
Authorised(secret) == secret = QUIZ_SECRET

\* receive_task: POST /task is answered.  A request with another secret is
\* rejected with 403; otherwise run_solver is added to the background tasks
\* and the response is returned; the task starts after the response.
ReceiveTask ==
    /\ response = "none"
    /\ \E secret \in Secrets :
          /\ request' = secret
          /\ IF Authorised(secret)
             THEN /\ queued' = queued + 1
                  /\ response' = "accepted"
                  /\ rs' = "queued"
             ELSE /\ response' = "forbidden"
                  /\ UNCHANGED <<queued, rs>>
    /\ UNCHANGED <<now, start, timer, stack, calls, checks, posts, exits,
                   dispVars, funVars>>

\* run_solver, lines 65-70: the background task starts
Accept ==
    /\ rs = "queued"
    /\ start' = now
    /\ rs' = "waiting"
    /\ stack' = <<Frame(TaskEmail, request, TaskUrl, now, TIMEOUT_S)>>
    /\ UNCHANGED <<now, timer, calls, checks, posts, exits, httpVars, dispVars,
                   funVars>>

\* line 23: p.chromium.launch
Launch ==
    /\ Running /\ Top.pc = "launch"
    /\ \E d \in Allowed :
          /\ now' = now + d
          /\ \/ /\ stack' = SetTop([Top EXCEPT !.pc = "new_context", !.browser = "open"])
                /\ UNCHANGED <<rs, exits>>
             \/ Leave("error", "none")
    /\ UNCHANGED <<start, timer, calls, checks, posts, httpVars, dispVars,
                   funVars>>

\* line 24: browser.new_context, outside the try block
NewContext ==
    /\ Running /\ Top.pc = "new_context"
    /\ \/ /\ stack' = SetTop([Top EXCEPT !.pc = "new_page"])
          /\ UNCHANGED <<rs, exits>>
       \/ Leave("error", Top.browser)
    /\ UNCHANGED <<now, start, timer, calls, checks, posts, httpVars, dispVars,
                   funVars>>

\* line 27: context.new_page, outside the try block
NewPage ==
    /\ Running /\ Top.pc = "new_page"
    /\ \/ /\ stack' = SetTop([Top EXCEPT !.pc = "goto"])
          /\ UNCHANGED <<rs, exits>>
       \/ Leave("error", Top.browser)
    /\ UNCHANGED <<now, start, timer, calls, checks, posts, httpVars, dispVars,
                   funVars>>

\* line 32: page.goto with a timeout of 30 s
Goto ==
    /\ Running /\ Top.pc = "goto"
    /\ \/ \E d \in {0, NAV_TIMEOUT_S - SETTLE_S} :
             /\ now + d <= start + Horizon
             /\ now' = now + d
             /\ \/ /\ stack' = SetTop([Top EXCEPT !.pc = "settle"])
                   /\ UNCHANGED <<rs, exits>>
                \/ Caught("error")
       \/ /\ now + NAV_TIMEOUT_S <= start + Horizon
          /\ now' = now + NAV_TIMEOUT_S
          /\ Caught("playwright_timeout")
    /\ UNCHANGED <<start, timer, calls, checks, posts, httpVars, dispVars,
                   funVars>>

\* line 35: page.wait_for_timeout(1000)
Settle ==
    /\ Running /\ Top.pc = "settle"
    /\ now + SETTLE_S <= start + Horizon
    /\ now' = now + SETTLE_S
    /\ \/ /\ stack' = SetTop([Top EXCEPT !.pc = "inner_text"])
          /\ UNCHANGED <<rs, exits>>
       \/ Caught("error")
    /\ UNCHANGED <<start, timer, calls, checks, posts, httpVars, dispVars,
                   funVars>>

\* line 38: page.inner_text('body')
InnerText ==
    /\ Running /\ Top.pc = "inner_text"
    /\ \/ /\ stack' = SetTop([Top EXCEPT !.pc = "content"])
          /\ UNCHANGED <<rs, exits>>
       \/ Caught("error")
    /\ UNCHANGED <<now, start, timer, calls, checks, posts, httpVars, dispVars,
                   funVars>>

\* lines 39-42: page.content, then extract_json_from_text; the page is known
Content ==
    /\ Running /\ Top.pc = "content"
    /\ \/ \E pg \in OrchPages :
             /\ stack' = SetTop([Top EXCEPT !.pc = "dispatch", !.page = pg])
             /\ UNCHANGED <<rs, exits>>
       \/ Caught("error")
    /\ UNCHANGED <<now, start, timer, calls, checks, posts, httpVars, dispVars,
                   funVars>>

\* line 51: answer_payload and 'submit_url' in answer_payload
HasSubmitKey(payload) == payload.present /\ payload.has_target

\* lines 45-54 and 78-79: solve_from_page_content, then the choice between
\* the submission and the 'No submit URL found' log
Dispatch ==
    /\ Running /\ Top.pc = "dispatch"
    /\ \E d \in Allowed :
          /\ now' = now + d
          /\ \/ LET payload == solve_from_page_content(Top.email, Top.secret,
                                                       Top.url, Top.page)
                IN  /\ stack' = SetTop([Top EXCEPT
                            !.page = NoPage,
                            !.payload = payload,
                            !.pc = IF HasSubmitKey(payload) THEN "post" ELSE "close",
                            !.log = IF HasSubmitKey(payload) THEN @ ELSE "no_submit_url"])
                    /\ UNCHANGED <<rs, exits>>
             \/ Caught("error")
    /\ UNCHANGED <<start, timer, calls, checks, posts, httpVars, dispVars,
                   funVars>>

\* line 57, for a target httpx rejects (None, '', a relative URL): the call
\* raises before any request is sent
PostRejected ==
    /\ Running /\ Top.pc = "post"
    /\ ~Absolute(Top.payload.submit_url)
    /\ posts' = posts \cup {[target |-> Top.payload.submit_url,
                             sent |-> FALSE]}
    /\ Caught("error")
    /\ UNCHANGED <<now, start, timer, calls, checks, httpVars, dispVars,
                   funVars>>

\* line 57: the request is sent and fails at the network level
PostNetworkError ==
    /\ Running /\ Top.pc = "post"
    /\ Absolute(Top.payload.submit_url)
    /\ posts' = posts \cup {[target |-> Top.payload.submit_url,
                             sent |-> TRUE]}
    /\ \E d \in Allowed : now' = now + d
    /\ Caught("error")
    /\ UNCHANGED <<start, timer, calls, checks, httpVars, dispVars,
                   funVars>>

\* Mutation: the remaining time is not tested.
HasTime_always(elapsed, timeout) == TRUE

\* Mutation: the deadline itself still allows a chained attempt.
HasTime_inclusive(elapsed, timeout) == elapsed <= timeout

\* line 70: elapsed < timeout
HasTime(elapsed, timeout) == elapsed < timeout

\* Mutation: the chained call is given the time of the call as its start_ts.
ChainArgs_fresh_start(f, elapsed, new_url) ==
    [email |-> f.email, secret |-> f.secret, url |-> new_url,
     start_ts |-> f.start_ts + elapsed, timeout |-> f.timeout - elapsed]

\* lines 71-73: the arguments of the chained call
ChainArgs(f, elapsed, new_url) ==
    [email |-> f.email, secret |-> f.secret, url |-> new_url,
     start_ts |-> f.start_ts, timeout |-> f.timeout - elapsed]

\* lines 57-77: the response arrives; resp.json(), the chain check and the
\* chained call up to its first await
PostResponse ==
    /\ Running /\ Top.pc = "post"
    /\ Absolute(Top.payload.submit_url)
    /\ posts' = posts \cup {[target |-> Top.payload.submit_url,
                             sent |-> TRUE]}
    /\ \E d \in Allowed, resp \in Responses :
          /\ now' = now + d
          /\ resp.body = "next" => Depth < MaxDepth
          /\ IF resp.body = "next"
             THEN LET elapsed == now' - Top.start_ts
                      chain == HasTime(elapsed, Top.timeout)
                      a == ChainArgs(Top, elapsed, NextUrl)
                  IN  /\ checks' = checks \cup
                            {[depth |-> Depth, T |-> now', status |-> resp.status,
                              start_ts |-> Top.start_ts, timeout |-> Top.timeout,
                              chained |-> chain]}
                      /\ IF chain
                         THEN /\ stack' = Append(
                                    SetTop([Top EXCEPT !.pc = "chained", !.log = "chained",
                                                !.payload = NoPayload]),
                                    [Frame(a.email, a.secret, a.url, a.start_ts, a.timeout)
                                        EXCEPT !.start_ts = IF a.start_ts = 0 THEN now'
                                                            ELSE a.start_ts])
                              /\ calls' = calls \cup
                                    {[depth |-> Depth + 1, at |-> now', args |-> a,
                                      parent |-> [email |-> Top.email, secret |-> Top.secret,
                                                  url |-> Top.url, start_ts |-> Top.start_ts,
                                                  timeout |-> Top.timeout]]}
                         ELSE /\ stack' = SetTop([Top EXCEPT !.pc = "close",
                                                             !.payload = NoPayload,
                                                             !.log = "insufficient_time"])
                              /\ calls' = calls
             ELSE /\ stack' = SetTop([Top EXCEPT
                        !.pc = "close",
                        !.payload = NoPayload,
                        !.log = IF resp.body = "text" THEN "non_json" ELSE @])
                  /\ UNCHANGED <<calls, checks>>
    /\ UNCHANGED <<start, rs, timer, exits, httpVars, dispVars,
                   funVars>>

\* line 86: browser.close() in the finally block, then the call exits: with
\* the CancelledError in flight if there is one, with the exception of
\* close() if it raises, normally otherwise
Close ==
    /\ Running /\ Top.pc = "close"
    /\ \/ Leave(IF Top.pending = "cancel" THEN "cancel" ELSE "return", "closed")
       \/ Leave("error", Top.browser)
    /\ UNCHANGED <<now, start, timer, calls, checks, posts, httpVars, dispVars,
                   funVars>>

\* wait_for's timeout (main.py lines 69-72): the running call gets a
\* CancelledError at the await it is suspended at.  Before the try block the
\* call exits at once; inside it the finally block runs; in the finally
\* block the await of close() is interrupted.
Cancel ==
    /\ Running /\ timer = "armed"
    /\ \E d \in Delays : now + d >= start + TIMEOUT_S
    /\ now' = Max(now, start + TIMEOUT_S)
    /\ timer' = "fired"
    /\ IF Top.pc \in {"launch", "new_context", "new_page"}
       THEN Leave("cancel", Top.browser)
       ELSE IF Top.pc = "close"
       THEN \E b \in {Top.browser, "closed"} : Leave("cancel", b)
       ELSE /\ stack' = SetTop([Top EXCEPT !.pc = "close", !.pending = "cancel",
                                           !.page = NoPage, !.payload = NoPayload])
            /\ UNCHANGED <<rs, exits>>
    /\ UNCHANGED <<start, calls, checks, posts, httpVars, dispVars,
                   funVars>>

Init ==
    /\ OrchIdle
    /\ DispIdle
    /\ JsonIdle
    /\ CallIdle
    /\ FileIdle

Next ==
    \/ ReceiveTask
    \/ Accept
    \/ Launch
    \/ NewContext
    \/ NewPage
    \/ Goto
    \/ Settle
    \/ InnerText
    \/ Content
    \/ Dispatch
    \/ PostRejected
    \/ PostNetworkError
    \/ PostResponse
    \/ Close
    \/ Cancel

Spec == Init /\ [][Next]_vars

(***************************************************************************)
(* SpecChain: run_solver and the chain of solve_task calls with one step   *)
(* per attempt, for chains of any length.  An attempt either runs from its *)
(* launch to a submission response that names a further url, or ends       *)
(* without one; the exits (Close) and the cancellation (Cancel) are those   *)
(* of Spec.  The clock advances by the fixed wait of line 35 and the        *)
(* latency of the attempt's awaits.  Every step that is enabled is          *)
(* eventually taken: each await returns or times out and the event loop     *)
(* resumes the call.                                                        *)
(***************************************************************************)
ChainDelays == {0, NAV_TIMEOUT_S}

\* lines 23-77: the attempt runs up to a response that names a url, and the
\* chain check is made
Attempt ==
    /\ Running /\ Top.pc = "launch"
    /\ Len(stack) <= MaxChain
    /\ \E d \in ChainDelays :
          /\ now' = now + SETTLE_S + d
          /\ LET elapsed == now' - Top.start_ts
                 a == ChainArgs(Top, elapsed, NextUrl)
             IN  IF HasTime(elapsed, Top.timeout)
                 THEN /\ stack' = Append(
                            SetTop([Top EXCEPT !.pc = "chained", !.log = "chained",
                                               !.browser = "open"]),
                            [Frame(a.email, a.secret, a.url, a.start_ts, a.timeout)
                                EXCEPT !.start_ts = IF a.start_ts = 0 THEN now'
                                                    ELSE a.start_ts])
                      /\ calls' = calls \cup
                            {[depth |-> Depth + 1, at |-> now', args |-> a,
                              parent |-> [email |-> Top.email, secret |-> Top.secret,
                                          url |-> Top.url, start_ts |-> Top.start_ts,
                                          timeout |-> Top.timeout]]}
                 ELSE /\ stack' = SetTop([Top EXCEPT !.pc = "close", !.browser = "open",
                                                     !.log = "insufficient_time"])
                      /\ calls' = calls
    /\ UNCHANGED <<start, rs, timer, checks, posts, exits, httpVars, dispVars,
                   funVars>>

\* lines 23-84: the attempt ends without a follow-up: a step fails, there is
\* no submission target, or the response names no url
AttemptEnds ==
    /\ Running /\ Top.pc = "launch"
    /\ Len(stack) <= MaxChain
    /\ \E d \in ChainDelays : now' = now + d
    /\ stack' = SetTop([Top EXCEPT !.pc = "close", !.browser = "open"])
    /\ UNCHANGED <<start, rs, timer, calls, checks, posts, exits, httpVars,
                   dispVars, funVars>>

NextChain ==
    \/ ReceiveTask
    \/ Accept
    \/ Attempt
    \/ AttemptEnds
    \/ Close
    \/ Cancel

SpecChain == Init /\ [][NextChain]_vars /\ WF_vars(NextChain)

(***************************************************************************)
(* Claims.                                                                 *)
(***************************************************************************)
\* The position of a strategy in the documented order
Rank(strategy) ==
    CASE strategy = "json" -> 1
      [] strategy = "data" -> 2
      [] strategy = "calc" -> 3
      [] strategy = "fallback" -> 4

\* What an invoked strategy returned
Returned(strategy) == StrategyResult(DEmail, DSecret, DUrl, dpage, strategy)

\* C1: the strategies are invoked in the order embedded-JSON, tabular,
\* arithmetic, fallback; every strategy invoked before the last one returned
\* None, none is invoked after one returned a dict, no applicable strategy is
\* passed over, and the call returns exactly the dict of the last strategy
\* invoked.
C1_FirstMatchWins ==
    /\ \A i, j \in 1..Len(invoked) : i < j => Rank(invoked[i]) < Rank(invoked[j])
    /\ \A i \in 1..(Len(invoked) - 1) : ~Returned(invoked[i]).present
    /\ dpc \notin {"done", "idle"} =>
          /\ \A i \in 1..Len(invoked) : ~Returned(invoked[i]).present
          /\ \A i \in 1..Len(invoked) : Rank(invoked[i]) < Rank(dpc)
          /\ dresult = NoPayload
    /\ dpc = "done" =>
          /\ invoked # <<>>
          /\ dresult.present
          /\ dresult = Returned(invoked[Len(invoked)])
          /\ \A st \in {"json", "data", "calc"} :
                (Rank(st) < Rank(invoked[Len(invoked)]) /\ Applies(dpage, st))
                    => \E i \in 1..Len(invoked) : invoked[i] = st

\* C1 witness: the tabular strategy returned the payload and the arithmetic
\* strategy, which applies to the page, was not invoked.
C1_Witness ==
    /\ dpc = "done"
    /\ invoked = <<"json", "data">>
    /\ CalcApplies(dpage)
    /\ dresult.answer = Flt(15, 1)

\* Some submission target is resolved for the embedded structure
TargetResolved(page) ==
    \/ Truthy(Get(page.json.data, "submit"))
    \/ Truthy(Get(page.json.data, "submit_url"))
    \/ Truthy(find_submit_url(page.html))

\* C9 as stated: for every structure with the key answer, whatever the
\* markup, the embedded-structure strategy yields a payload whose answer is
\* the value under answer.
C9_AnswerVerbatim ==
    (dpage.json.present /\ HasKey(dpage.json.data, "answer") /\ dpc \notin {"json", "idle"})
        => /\ dpc = "done"
           /\ invoked = <<"json">>
           /\ dresult.present
           /\ dresult.answer = Item(dpage.json.data, "answer")

\* C9 amended: when a submission target is resolved (a truthy submit or
\* submit_url field, or a truthy result of find_submit_url), the strategy
\* yields a payload whose answer is the value under answer, unchanged; when
\* none is resolved the strategy yields None and the later strategies run.
C9_AnswerVerbatimGivenTarget ==
    (dpage.json.present /\ HasKey(dpage.json.data, "answer") /\ dpc \notin {"json", "idle"})
        => /\ invoked # <<>> /\ invoked[1] = "json"
           /\ TargetResolved(dpage) =>
                 /\ dpc = "done"
                 /\ invoked = <<"json">>
                 /\ dresult.present
                 /\ dresult.answer = Item(dpage.json.data, "answer")
           /\ ~TargetResolved(dpage) =>
                 /\ dpc = "done" =>
                       /\ Len(invoked) > 1
                       /\ dresult = Returned(invoked[Len(invoked)])
                 /\ dpc # "done" => dresult = NoPayload

\* C9 witness: a structure whose answer is null and whose target is its
\* submit_url field: the payload's answer is null.
C9_Witness ==
    /\ dpc = "done"
    /\ dpage.json.present
    /\ HasKey(dpage.json.data, "answer")
    /\ Item(dpage.json.data, "answer") = Null
    /\ ~HasKey(dpage.json.data, "submit")
    /\ dresult.answer = Null
    /\ dresult.submit_url = Str("https://t/s")

\* None of result, value, number, total is a key
NoAnswerKey(data) ==
    /\ ~HasKey(data, "result")
    /\ ~HasKey(data, "value")
    /\ ~HasKey(data, "number")
    /\ ~HasKey(data, "total")

\* The keyed part of C10: the first of result, value, number, total present
C10_Keyed ==
    /\ HasKey(jdata, "result") => jout = Item(jdata, "result")
    /\ (~HasKey(jdata, "result") /\ HasKey(jdata, "value")) => jout = Item(jdata, "value")
    /\ (~HasKey(jdata, "result") /\ ~HasKey(jdata, "value") /\ HasKey(jdata, "number"))
          => jout = Item(jdata, "number")
    /\ (~HasKey(jdata, "result") /\ ~HasKey(jdata, "value") /\ ~HasKey(jdata, "number")
          /\ HasKey(jdata, "total")) => jout = Item(jdata, "total")
    /\ (NoAnswerKey(jdata) /\ \A i \in 1..Len(jdata) : ~IsNumberList(jdata[i][2]))
          => jout = Num(0)

\* C10 as stated: with none of result, value, number, total, the result is
\* the sum of the list L for every key that holds a list of numbers, at any
\* position among the other keys.
C10_SumOfAnyNumberList ==
    jpc = "done" =>
        /\ C10_Keyed
        /\ NoAnswerKey(jdata) =>
              \A i \in 1..Len(jdata) :
                  IsNumberList(jdata[i][2]) => jout = Num(SumSeq(jdata[i][2].l))

\* C10 amended: with none of result, value, number, total, the result is the
\* sum of the first value, in key order, that is a list of numbers (an empty
\* list counts and sums to 0, a boolean counts as 0 or 1); so it is the sum
\* of L when no earlier key holds a list of numbers.
C10_SumOfFirstNumberList ==
    jpc = "done" =>
        /\ C10_Keyed
        /\ NoAnswerKey(jdata) =>
              \A i \in 1..Len(jdata) :
                  (/\ IsNumberList(jdata[i][2])
                   /\ \A j \in 1..(i - 1) : ~IsNumberList(jdata[j][2]))
                      => jout = Num(SumSeq(jdata[i][2].l))

\* C10 witness: two lists of numbers with different sums; the first is summed.
C10_Witness ==
    /\ jpc = "done"
    /\ jdata = << <<"b", Lst(<<Num(1), Num(2)>>)>>, <<"a", Lst(<<Num(4)>>)>> >>
    /\ jout = Num(3)

\* The absolute deadline fixed when the task was accepted
Deadline == start + TIMEOUT_S

\* C2 as stated: at every chain depth, a response that names a url starts the
\* chained attempt if and only if the time T of the check is before the
\* deadline D of the task.
C2_ChainIffBeforeDeadline ==
    \A c \in checks : c.chained <=> c.T < Deadline

\* C3 as stated: every chained call has the absolute deadline, the identity
\* and the credential of the call that made it.
C3_SameDeadlineAlongChain ==
    \A c \in calls :
        /\ c.args.start_ts + c.args.timeout = c.parent.start_ts + c.parent.timeout
        /\ c.args.email = c.parent.email
        /\ c.args.secret = c.parent.secret

\* C4: every chained solve_task call begins strictly before start + 180 s,
\* at every depth.
C4_NoChainAtOrAfterDeadline ==
    \A c \in calls : c.at < start + TIMEOUT_S

\* C4 witness: a chained call at the greatest depth, made two minutes or
\* more into the task.
C4_Witness ==
    \E c \in calls : c.depth = MaxDepth /\ c.at >= start + 4 * NAV_TIMEOUT_S

\* C5 as stated: no failure of a step leaves solve_task as an exception.
C5_NoFailureEscapesSolveTask ==
    /\ \A e \in exits : e.via # "error"
    /\ rs # "errored"

\* C6 as stated: a browser launched by a solve_task call is closed when the
\* call exits, on every exit path.
C6_BrowserClosedOnExit ==
    \A e \in exits : e.browser # "open"

\* C7 as stated: the target of a POST is never empty or missing; with no
\* target no POST is attempted.
C7_PostTargetNeverEmpty ==
    \A p \in posts : Truthy(p.target)

\* C8 as stated: after a POST answered with an HTTP failure status no chained
\* attempt is started.
C8_NoChainAfterFailedPost ==
    \A c \in checks : c.status >= 400 => ~c.chained

\* The embedded-structure strategy returned the payload of the call
JsonReturned ==
    /\ dpage.json.present
    /\ dpc = "done"
    /\ invoked = <<"json">>

\* The target by presence: the submit field if the key is present, else the
\* submit_url field if the key is present, else the result of find_submit_url
TargetByPresence(data, html) ==
    IF HasKey(data, "submit") THEN Item(data, "submit")
    ELSE IF HasKey(data, "submit_url") THEN Item(data, "submit_url")
    ELSE find_submit_url(html)

\* The target by truthiness: the submit field if it is present and truthy
\* (not null, not empty, not zero), else the submit_url field if it is
\* present and truthy, else the result of find_submit_url
TargetByTruth(data, html) ==
    IF HasKey(data, "submit") /\ Truthy(Item(data, "submit"))
    THEN Item(data, "submit")
    ELSE IF HasKey(data, "submit_url") /\ Truthy(Item(data, "submit_url"))
    THEN Item(data, "submit_url")
    ELSE find_submit_url(html)

\* The structure {result: 42, submit_url: U} of the claim's example
IsResult42(data) ==
    /\ Len(data) = 2
    /\ data[1] = <<"result", Num(42)>>
    /\ data[2][1] = "submit_url"
    /\ data[2][2].t = "str"
    /\ data[2][2].s # ""

\* C11 as stated: the payload of the embedded-structure strategy has as its
\* submission target the submit field if present, else the submit_url field
\* if present, else the result of find_submit_url on the markup.
C11_TargetByPresence ==
    JsonReturned
        => dresult.submit_url = TargetByPresence(dpage.json.data, dpage.html)

\* C11 amended: the submission target is the submit field if it is present
\* and truthy, else the submit_url field if it is present and truthy, else
\* the result of find_submit_url on the markup; a field that is present but
\* null, empty or zero is passed over.  Once invoked (on a non-empty
\* structure), the strategy returns its payload
\* exactly when that target is truthy, and a structure
\* {result: 42, submit_url: U} yields answer 42 with target U whatever the
\* markup.
C11_TargetByTruth ==
    (invoked # <<>> /\ invoked[1] = "json")
        => /\ JsonReturned <=> Truthy(TargetByTruth(dpage.json.data, dpage.html))
           /\ JsonReturned =>
                 /\ dresult.has_target
                 /\ dresult.submit_url = TargetByTruth(dpage.json.data, dpage.html)
           /\ IsResult42(dpage.json.data) =>
                 /\ JsonReturned
                 /\ dresult.answer = Num(42)
                 /\ dresult.submit_url = dpage.json.data[2][2]

\* C11 witness: {result: 42, submit_url: U} on a page whose markup has a
\* 'submit' link to another address: answer 42, target U.
C11_Witness ==
    /\ JsonReturned
    /\ IsResult42(dpage.json.data)
    /\ dpage.html = DocSubmit
    /\ find_submit_url(dpage.html) = Str("https://x/submit")
    /\ dresult.answer = Num(42)
    /\ dresult.submit_url = Str("https://u/s")

\* Rule 1 matches the element: a hyperlink with 'submit' in its href or in
\* its text, in either case
Rule1(e) ==
    /\ e.tag = "a"
    /\ e.href.t = "str"
    /\ (LowerHas(e.href.s, "submit") \/ LowerHas(e.text, "submit"))

\* Rule 3 matches the element: a hyperlink with '/api/' or '/task/' in its
\* href
Rule3(e) ==
    /\ e.tag = "a"
    /\ e.href.t = "str"
    /\ (Has(e.href.s, "/api/") \/ Has(e.href.s, "/task/"))

\* The positions of the document that satisfy P, and the first form
Where(P(_), html) == {i \in 1..Len(html) : P(html[i])}
IsForm(e) == e.tag = "form"
Rule2(html) ==
    /\ Where(IsForm, html) # {}
    /\ html[First(Where(IsForm, html))].action # ""

\* C12: find_submit_url returns the href of the first hyperlink matching
\* rule 1; else the non-empty action of the first form; else the href of
\* the first hyperlink matching rule 3; it returns None exactly when no rule
\* matches.  The position of the rule-1 match relative to forms and /api/
\* links plays no part.
C12_ThreeRulesInPriority ==
    apc = "done" =>
        /\ Where(Rule1, arg) # {} => ret = arg[First(Where(Rule1, arg))].href
        /\ (Where(Rule1, arg) = {} /\ Rule2(arg))
              => ret = Str(arg[First(Where(IsForm, arg))].action)
        /\ (Where(Rule1, arg) = {} /\ ~Rule2(arg) /\ Where(Rule3, arg) # {})
              => ret = arg[First(Where(Rule3, arg))].href
        /\ ret = Null
              <=> (Where(Rule1, arg) = {} /\ ~Rule2(arg) /\ Where(Rule3, arg) = {})

\* C12 witness: a form with an action and an /api/ link both precede the
\* link whose text is 'Submit'; the result is that link's href.
C12_Witness ==
    /\ apc = "done"
    /\ arg = << Form("/post"), A(Str("/api/answer"), "api"), A(Str("/next"), "Submit") >>
    /\ ret = Str("/next")

\* The cells of the column compute_from_dataframe chose, in file order
ChosenCells == arg.df.columns[ChosenColumn(arg.df, arg.instruction)].cells

\* compute_from_dataframe returned for an instruction with 'row N' and
\* without 'page N', on a frame that has a column to choose
RowCase ==
    /\ apc = "done"
    /\ ChosenColumn(arg.df, arg.instruction) # 0
    /\ arg.instruction.page = Null
    /\ arg.instruction.row # Null

\* float() of the cell at the 1-indexed row n
RowValue(cells, n) == IF cells[n].t = "num" THEN Flt(cells[n].n, 1) ELSE NaN

\* C13: with 'row N' and no 'page N', when N is the 1-indexed position of an
\* existing row (1 <= N <= row count) the result is the chosen column's
\* value at that row, with no aggregation; otherwise no row value is
\* returned: the row lookup is passed over and the result is the aggregation
\* over the whole column.
C13_RowLookup ==
    RowCase =>
        LET n == arg.instruction.row.n
        IN  /\ (1 <= n /\ n <= arg.df.rows) => ret = RowValue(ChosenCells, n)
            /\ ~(1 <= n /\ n <= arg.df.rows)
                  => ret = Aggregate(ChosenCells, arg.instruction.words)

\* The part of C13 for rows that exist
C13_RowInBounds ==
    (RowCase /\ 1 <= arg.instruction.row.n /\ arg.instruction.row.n <= arg.df.rows)
        => ret = RowValue(ChosenCells, arg.instruction.row.n)

\* The part of C13 for N beyond the last row
C13_RowBeyond ==
    (RowCase /\ arg.instruction.row.n > arg.df.rows)
        => ret = Aggregate(ChosenCells, arg.instruction.words)

\* The rows with 0-based index in [lo, hi), in file order
RowsIn(cells, lo, hi) ==
    LET idx == {i \in 0..(Len(cells) - 1) : lo <= i /\ i < hi}
        pick[T \in SUBSET idx] ==
            IF T = {} THEN <<>> ELSE <<cells[First(T) + 1]>> \o pick[T \ {First(T)}]
    IN  pick[idx]

\* C14: with 'page N' the result is the aggregation, by the keyword of the
\* instruction, over exactly the rows with 0-based index in
\* [(N-1)*10, (N-1)*10+10), whether or not the instruction has 'row M'.
C14_PageWindow ==
    (apc = "done" /\ ChosenColumn(arg.df, arg.instruction) # 0
        /\ arg.instruction.page # Null)
        => LET n == arg.instruction.page.n
           IN  ret = Aggregate(RowsIn(ChosenCells, (n - 1) * 10, (n - 1) * 10 + 10),
                               arg.instruction.words)

\* C14 witness: 'page 2' and 'row 1' on a frame of 12 rows: the sum of rows
\* 10 and 11 (12 + 11), not the value of row 1 and not the sum of all rows.
C14_Witness ==
    /\ apc = "done"
    /\ arg.df.rows = 12
    /\ arg.df.columns = << Column("Score", TRUE, Scores(12, {})) >>
    /\ arg.instruction.page = Num(2)
    /\ arg.instruction.row = Num(1)
    /\ arg.instruction.words = {"sum"}
    /\ ret = Flt(23, 1)

\* The text has a keyword of the group
Mentions(group) == arg.text.words \cap group # {}

\* C15: for every text with at least one extracted number the answer is the
\* sum of all the numbers when the text has sum, add or total; else their
\* product when it has multiply or product; else their mean when it has
\* average or mean; else the first number.  The payload returned carries
\* that answer, and it is the value handle_calculation returns.  The text
\* with sum and the numbers 3, 4.5, 10 gives 17.5.
C15_KeywordPriority ==
    (apc \in {"computed", "done"} /\ arg.text.numbers # <<>>) =>
        LET ns == arg.text.numbers
            bySum == Mentions({"sum", "add", "total"})
            byProduct == Mentions({"multiply", "product"})
            byMean == Mentions({"average", "mean"})
        IN  /\ bySum => ret.answer = SumFloats(ns)
            /\ (~bySum /\ byProduct) => ret.answer = ProdSeq(ns)
            /\ (~bySum /\ ~byProduct /\ byMean)
                  => ret.answer = Flt(SumFloats(ns).n, SumFloats(ns).d * Len(ns))
            /\ (~bySum /\ ~byProduct /\ ~byMean) => ret.answer = Float(ns[1])
            /\ (bySum /\ ns = <<"3", "4.5", "10">>) => ret.answer = Flt(175, 10)
            /\ apc = "done" =>
                  /\ ret.payload = handle_calculation(DEmail, DSecret, DUrl,
                                                      arg.text, arg.html)
                  /\ ret.payload.present => ret.payload.answer = ret.answer

\* C15 witness: the text has keywords of all three groups and the numbers 3,
\* 4.5 and 10; the payload's answer is their sum 17.5 (35/2), neither the
\* product 135 nor the mean.
C15_Witness ==
    /\ apc = "done"
    /\ arg.text.words = {"sum", "product", "mean"}
    /\ arg.text.numbers = <<"3", "4.5", "10">>
    /\ ret.payload.present
    /\ ret.payload.answer = [t |-> "float", n |-> 35, s |-> "", l |-> <<>>, d |-> 2]

\* The link yields a result: it downloads, it is a csv or Excel link, it
\* parses, and compute_from_dataframe returns a number without raising
Yields(href, instruction) ==
    /\ FileWorld(href).download
    /\ (LowerHas(href, ".csv") \/ LowerHas(href, ".xlsx") \/ LowerHas(href, ".xls"))
    /\ FileWorld(href).parse
    /\ compute_from_dataframe(FileWorld(href).df, instruction) \notin {Null, Raised}

\* C18: the links downloaded are a prefix of the file links in document
\* order; every link before the last one downloaded failed to download, was
\* of another type, failed to parse, raised in the computation or yielded
\* None; the call returns the payload of the first link that yields a
\* result, having downloaded no link after it, and returns None, with every
\* link tried, when no link yields one.
C18_FirstGoodLink ==
    LET links == FileLinks(arg.html)
        good == {i \in 1..Len(links) : Yields(links[i], arg.text)}
    IN  apc \in {"loop", "done"} =>
            /\ Len(fseen) <= Len(links)
            /\ fseen = SubSeq(links, 1, Len(fseen))
            /\ \A i \in 1..(Len(fseen) - 1) : i \notin good
            /\ apc = "loop" => (fidx = Len(fseen) + 1 /\ \A i \in 1..Len(fseen) : i \notin good)
            /\ (apc = "done" /\ good = {}) => (~ret.present /\ fseen = links)
            /\ (apc = "done" /\ good # {}) =>
                  /\ ret.present
                  /\ Len(fseen) = First(good)
                  /\ ret.answer = compute_from_dataframe(
                                      FileWorld(links[First(good)]).df, arg.text)
            /\ apc = "done" =>
                  ret = handle_data_analysis(DEmail, DSecret, DUrl, arg.text, arg.html)

\* C18 witness: a link whose download fails, a 'download' link that is
\* neither csv nor Excel, data.csv and book.xlsx: the first three are
\* downloaded, the answer is the sum over data.csv, book.xlsx is not
\* downloaded.
C18_Witness ==
    /\ apc = "done"
    /\ FileLinks(arg.html) = <<"bad.csv", "/download/7", "data.csv", "book.xlsx">>
    /\ arg.text = Text({"sum"}, <<>>)
    /\ fseen = <<"bad.csv", "/download/7", "data.csv">>
    /\ ret.answer = Flt(15, 1)

\* The state part of C16
C16_Gate ==
    /\ response = "forbidden" =>
          /\ request # QUIZ_SECRET
          /\ queued = 0
          /\ rs = "idle"
          /\ stack = <<>>
          /\ posts = {}
    /\ response = "accepted" =>
          /\ request = QUIZ_SECRET
          /\ queued = 1
    /\ rs # "idle" => response = "accepted"
    /\ stack # <<>> =>
          /\ stack[1].start_ts = start
          /\ stack[1].timeout = 180
          /\ stack[1].secret = QUIZ_SECRET
    /\ timer = "fired" => now >= start + 180

\* C16: a request whose secret differs from the configured one is answered
\* 403 and no solver task is queued or run for it; a request with the
\* configured secret queues exactly one task, whose deadline is 180 seconds
\* after its start, and is answered 'accepted' before the task starts; the
\* response and the number of queued tasks never change afterwards,
\* whatever the task does.
C16_SecretGate ==
    /\ []C16_Gate
    /\ [][response # "none" => (response' = response /\ queued' = queued
                                    /\ request' = request)]_vars

\* C16 witness: the request was accepted and its task, queued once, has
\* timed out.
C16_Witness ==
    /\ response = "accepted"
    /\ queued = 1
    /\ rs = "timed_out"

\* The part of C19 about the calls that await a chained call: each is
\* suspended at line 73 with its browser open.
C19_OpenWhileChained ==
    \A i \in 1..(Len(stack) - 1) :
        /\ stack[i].pc = "chained"
        /\ stack[i].browser = "open"

\* C19: while a chained attempt runs, the browser of every attempt below it
\* in the chain is open; and an attempt closes its browser only after the
\* attempts it awaited have closed theirs: no call exits with its browser
\* closed after a call of its chain exited with its browser open.
C19_NestedBrowsers ==
    /\ C19_OpenWhileChained
    /\ \A e \in exits : e.browser = "closed" => e.inner = "closed"

\* Three attempts of one chain with their three browsers open at once
C19_ThreeOpen ==
    /\ Len(stack) = 3
    /\ \A i \in 1..3 : stack[i].browser = "open"

\* C20: the timeout given to every chained call is positive and at most the
\* timeout of the call that makes it, and its start_ts is that call's
\* start_ts; so every active call has the start_ts run_solver chose, and the
\* timeouts do not grow along the chain.
C20_ShrinkingTimeout ==
    /\ \A c \in calls :
          /\ c.args.timeout > 0
          /\ c.args.timeout <= c.parent.timeout
          /\ c.args.start_ts = c.parent.start_ts
    /\ \A i \in 1..Len(stack) :
          /\ stack[i].start_ts = start
          /\ stack[i].timeout > 0
          /\ i > 1 => stack[i].timeout <= stack[i - 1].timeout

\* C20 witness: a chain of three attempts whose timeouts are 180, then less,
\* then less again.
C20_Witness ==
    /\ Len(stack) = 3
    /\ stack[1].timeout = 180
    /\ stack[2].timeout < stack[1].timeout
    /\ stack[3].timeout < stack[2].timeout
    /\ \E c \in calls : c.depth = 2 /\ c.args.timeout = stack[3].timeout

\* run_solver has returned
Done == rs \in {"completed", "timed_out", "errored"}

\* C17: although every attempt may get a response that names a further url,
\* a chain never has more than MaxChain attempts and none of them is started
\* at or after run_solver's deadline; and every run_solver that has started
\* eventually returns.
C17_ChainTerminates ==
    /\ [](Len(stack) <= MaxChain)
    /\ [](\A c \in calls : c.at < start + TIMEOUT_S)
    /\ (rs = "waiting") ~> Done

\* C17 witness: run_solver completed after a chain of 19 attempts, each of
\* which got a response naming a further url; the 19th found no time left.
C17_Witness ==
    /\ rs = "completed"
    /\ \E c \in calls : c.depth = 18
====
